---- MODULE Spec2Model ----
(***************************************************************************)
(* Model of components/freertos/esp_additions/idf_additions.c: the         *)
(* WithCaps creation and deletion wrappers and the task-deletion state     *)
(* machine of vTaskDeleteWithCaps, run against a kernel (scheduler, static *)
(* constructors, introspection, destructors) and a capability allocator.   *)
(*                                                                         *)
(* The specifications share the variables:                                 *)
(*   Spec     the task-deletion state machine, one step per kernel call,   *)
(*            interleaved with the per-core scheduler;                     *)
(*   SpecR    Spec with an application that resumes the suspended task;    *)
(*   SpecFair Spec under the scheduler's fairness;                         *)
(*   SpecObj  the create/delete wrappers, one action per call, with the    *)
(*            allocator and the kernel constructors free to fail.          *)
(***************************************************************************)
EXTENDS Integers, Sequences, FiniteSets, TLC

\* Largest configNUM_CORES a build is drawn from (1 .. MaxCores).
MaxCores == 2
\* Task priorities are drawn from 1 .. MaxPrio.
MaxPrio == 2
\* The allocator hands out addresses 1 .. MaxAddr; 0 is the null pointer.
MaxAddr == 3
\* Capability masks are drawn from 1 .. MaxCaps.
MaxCaps == 2
\* Queue item sizes are drawn from 0 .. MaxItemSize.
MaxItemSize == 1

VARIABLES
    configNUM_CORES,   \* cores of the build
    pxCurrentTCBs,     \* core -> task running on it, or "idle"
    tstate,            \* task -> "none" | "ready" | "suspended" | "deleted"
    uxPriority,        \* task -> priority
    xCoreID,           \* task -> set of cores it may run on
    pc,                \* task -> position in its code
    xTaskToDelete,     \* task -> argument of its vTaskDeleteWithCaps call
    puxStackBuffer,    \* task -> local of the call (stack pointer recovered)
    pxTaskBuffer,      \* task -> local of the call (control block recovered)
    path,              \* task -> branches of vTaskDeleteWithCaps entered by its call
    sel,               \* task -> facts read when the branch was chosen
    inflight,          \* a deletion of the WithCaps task has been requested
    aborted,           \* "no", or the reason the process aborted
    heap,              \* live allocations: records [addr, by]
    heapFault,         \* a free of a pointer that is not a live allocation happened
    objs,              \* SpecObj: live kernel objects
    log,               \* SpecObj: allocator and kernel calls of the last wrapper call
    last               \* SpecObj: the last wrapper call and its result

taskVars == <<configNUM_CORES, pxCurrentTCBs, tstate, uxPriority, xCoreID, pc,
              xTaskToDelete, puxStackBuffer, pxTaskBuffer, path, sel, inflight>>
objVars == <<objs, log, last>>
vars == <<taskVars, aborted, heap, heapFault, objVars>>

(***************************************************************************)
(* Tasks of the task-deletion model: "T" was created by                    *)
(* xTaskCreatePinnedToCoreWithCaps, "S" is another application task, "R"   *)
(* is prvTaskDeleteWithCapsTask.                                           *)
(***************************************************************************)
Tasks == {"T", "S", "R"}
NULL == "NULL"
Cores == 0 .. (configNUM_CORES - 1)
Addr == 1 .. MaxAddr

Port == "pvPortMalloc"
Caps == "heap_caps_malloc"

\* heap_caps_free / vPortFree on the allocator state: free(NULL) is a no-op,
\* a free of a pointer that is not live is a fault.
Live(h) == {b.addr : b \in h}
FreeIn(h, p) == {b \in h : b.addr # p}
FaultOn(h, p) == p # 0 /\ p \notin Live(h)

\* The kernel's record of the WithCaps task's static buffers.
pxStackOf(t) == IF t = "T" THEN 1 ELSE 0
pxTCBOf(t) == IF t = "T" THEN 2 ELSE 0

\* taskIS_CURRENTLY_RUNNING / eTaskGetState() == eRunning
Running(t) == \E c \in Cores : pxCurrentTCBs[c] = t
CoreOf(t) == CHOOSE c \in Cores : pxCurrentTCBs[c] = t
Registered(t) == tstate[t] \in {"ready", "suspended"}
TaskLive(t) == Registered(t) \/ Running(t)

\* xTaskToDelete resolved: NULL names the caller.
Target(t) == IF xTaskToDelete[t] = NULL THEN t ELSE xTaskToDelete[t]

CanStep(t) == aborted = "no" /\ ~heapFault /\ Running(t)

(***************************************************************************)
(* Kernel calls (scheduler side).                                          *)
(***************************************************************************)

\* Scheduler lists after vTaskSuspend( u ): u is on the suspended list.  A
\* task that was already deleted and suspends itself runs on a freed control
\* block: the kernel may or may not link it into the suspended list.
vTaskSuspend_states(u) ==
    IF tstate[u] = "deleted"
    THEN {tstate, [tstate EXCEPT ![u] = "suspended"]}
    ELSE {[tstate EXCEPT ![u] = "suspended"]}

\* Scheduler lists after vTaskDelete( u ): u is off every list (on the
\* termination list when it is still running).
vTaskDelete_state(u) == [tstate EXCEPT ![u] = "deleted"]

\* The caller t gives up its core when the call acts on t itself; a task
\* running on another core keeps that core until the core switches.
YieldIfSelf(t, u) ==
    IF u = t THEN [pxCurrentTCBs EXCEPT ![CoreOf(t)] = "idle"] ELSE pxCurrentTCBs

\* Tasks core c may select: ready, allowed on c, not running elsewhere.
Eligible(c) ==
    {t \in Tasks : tstate[t] = "ready" /\ c \in xCoreID[t] /\ ~Running(t)}

TopEligible(c) ==
    {t \in Eligible(c) : \A u \in Eligible(c) : uxPriority[t] >= uxPriority[u]}

\* A context switch on core c (tick, yield or yield request from another
\* core): the highest-priority eligible task is selected; a current task that
\* is still ready is only replaced by a task of at least its priority.
SwitchContext(c) ==
    /\ aborted = "no" /\ ~heapFault
    /\ LET curT == pxCurrentTCBs[c]
           stay == curT # "idle" /\ tstate[curT] = "ready"
       IN  IF TopEligible(c) = {}
           THEN /\ curT # "idle" /\ ~stay
                /\ pxCurrentTCBs' = [pxCurrentTCBs EXCEPT ![c] = "idle"]
           ELSE \E n \in TopEligible(c) :
                    /\ stay => uxPriority[n] >= uxPriority[curT]
                    /\ pxCurrentTCBs' = [pxCurrentTCBs EXCEPT ![c] = n]
    /\ UNCHANGED <<configNUM_CORES, tstate, uxPriority, xCoreID, pc, xTaskToDelete,
                   puxStackBuffer, pxTaskBuffer, path, sel, inflight,
                   aborted, heap, heapFault, objVars>>

(***************************************************************************)
(* Application code of "T" and "S".                                        *)
(***************************************************************************)

\* Handles task t may pass to vTaskDeleteWithCaps: the WithCaps task "T"
\* names itself by NULL or by its handle, "S" names "T".
Args(t) == IF t = "T" THEN {NULL, "T"} ELSE {"T"}

\* Application code calls vTaskDeleteWithCaps( x ) on the live WithCaps task;
\* at most one deletion is in flight per task.
CallDelete(t) ==
    /\ t \in {"T", "S"} /\ CanStep(t) /\ pc[t] = "run"
    /\ ~inflight /\ Registered("T")
    /\ \E x \in Args(t) : xTaskToDelete' = [xTaskToDelete EXCEPT ![t] = x]
    /\ pc' = [pc EXCEPT ![t] = "entry"]
    /\ path' = [path EXCEPT ![t] = {}]
    /\ inflight' = TRUE
    /\ UNCHANGED <<configNUM_CORES, pxCurrentTCBs, tstate, uxPriority, xCoreID,
                   puxStackBuffer, pxTaskBuffer, sel, aborted, heap, heapFault, objVars>>

\* Application code suspends itself (vTaskSuspend( NULL )).
UserSuspend(t) ==
    /\ t \in {"T", "S"} /\ CanStep(t) /\ pc[t] \in {"run", "returned"}
    /\ tstate[t] = "ready"
    /\ tstate' = [tstate EXCEPT ![t] = "suspended"]
    /\ pxCurrentTCBs' = YieldIfSelf(t, t)
    /\ UNCHANGED <<configNUM_CORES, uxPriority, xCoreID, pc, xTaskToDelete,
                   puxStackBuffer, pxTaskBuffer, path, sel, inflight,
                   aborted, heap, heapFault, objVars>>

\* Application code resumes the suspended WithCaps task (vTaskResume); only
\* SpecR has it.
UserResume(t) ==
    /\ t = "S" /\ CanStep(t) /\ pc[t] \in {"run", "returned"}
    /\ tstate["T"] = "suspended"
    /\ tstate' = [tstate EXCEPT !["T"] = "ready"]
    /\ UNCHANGED <<configNUM_CORES, pxCurrentTCBs, uxPriority, xCoreID, pc,
                   xTaskToDelete, puxStackBuffer, pxTaskBuffer, path, sel, inflight,
                   aborted, heap, heapFault, objVars>>

(***************************************************************************)
(* vTaskDeleteWithCaps, one step per kernel or allocator call, executed by *)
(* the task t that called it.                                              *)
(***************************************************************************)

Abort(reason) == aborted' = reason

\* Where the call returns to: application code, or line 99 of the clean-up task.
ReturnTo(t) == IF t = "R" THEN "R_delself" ELSE "returned"

FirstOf(p) ==
    IF p = "A" THEN "A_create" ELSE IF p = "B" THEN "B_suspend" ELSE "C_assert"

\* Mutant of SelectPath: the self test misses xTaskToDelete == xCurrentTaskHandle.
SelectPath_NullOnly(t) ==
    IF xTaskToDelete[t] = NULL THEN "A"
    ELSE IF configNUM_CORES > 1 /\ Running(Target(t)) THEN "B"
    ELSE "C"

\* Lines 108-111, 158-159, 188: the if / else-if / else chain.  The second
\* test (eTaskGetState) is compiled only when configNUM_CORES > 1.
SelectPath(t) ==
    LET isSelf == (xTaskToDelete[t] = NULL) \/ (xTaskToDelete[t] = t)
    IN  IF isSelf THEN "A"
        ELSE IF configNUM_CORES > 1 /\ Running(Target(t)) THEN "B"
        ELSE "C"

Select(t) ==
    /\ CanStep(t) /\ pc[t] = "entry"
    /\ pc' = [pc EXCEPT ![t] = FirstOf(SelectPath(t))]
    /\ path' = [path EXCEPT ![t] = @ \cup {SelectPath(t)}]
    /\ sel' = [sel EXCEPT ![t] = [running |-> Running(Target(t)),
                                  suspended |-> tstate[Target(t)] = "suspended"]]
    /\ UNCHANGED <<configNUM_CORES, pxCurrentTCBs, tstate, uxPriority, xCoreID,
                   xTaskToDelete, puxStackBuffer, pxTaskBuffer, inflight,
                   aborted, heap, heapFault, objVars>>

\* Mutant of A_Create: the caller is suspended before the result of the
\* creation is tested.
A_Create_SuspendFirst(t) ==
    /\ CanStep(t) /\ pc[t] = "A_create"
    /\ \E created \in BOOLEAN :
          IF created
          THEN /\ tstate' = [tstate EXCEPT !["R"] = "ready", ![Target(t)] = "suspended"]
               /\ uxPriority' = [uxPriority EXCEPT !["R"] = uxPriority[Target(t)]]
               /\ xCoreID' = [xCoreID EXCEPT !["R"] = {CoreOf(t)}]
               /\ xTaskToDelete' = [xTaskToDelete EXCEPT !["R"] = t]
               /\ pc' = [pc EXCEPT ![t] = "A_suspend", !["R"] = "R_assert"]
               /\ UNCHANGED aborted
          ELSE /\ Abort("create_failed")
               /\ tstate' = [tstate EXCEPT ![Target(t)] = "suspended"]
               /\ pc' = [pc EXCEPT ![t] = "aborted"]
               /\ UNCHANGED <<uxPriority, xCoreID, xTaskToDelete>>
    /\ UNCHANGED <<configNUM_CORES, pxCurrentTCBs, puxStackBuffer, pxTaskBuffer,
                   path, sel, inflight, heap, heapFault, objVars>>

\* Line 140 (and 150-155): xTaskCreatePinnedToCore of the clean-up task with
\* parameter xCurrentTaskHandle, priority uxTaskPriorityGet( xTaskToDelete )
\* and core xPortGetCoreID(); the kernel may fail to create it.
A_Create(t) ==
    /\ CanStep(t) /\ pc[t] = "A_create"
    /\ \E created \in BOOLEAN :
          IF created
          THEN /\ tstate' = [tstate EXCEPT !["R"] = "ready"]
               /\ uxPriority' = [uxPriority EXCEPT !["R"] = uxPriority[Target(t)]]
               /\ xCoreID' = [xCoreID EXCEPT !["R"] = {CoreOf(t)}]
               /\ xTaskToDelete' = [xTaskToDelete EXCEPT !["R"] = t]
               /\ pc' = [pc EXCEPT ![t] = "A_suspend", !["R"] = "R_assert"]
               /\ UNCHANGED aborted
          ELSE /\ Abort("create_failed")
               /\ pc' = [pc EXCEPT ![t] = "aborted"]
               /\ UNCHANGED <<tstate, uxPriority, xCoreID, xTaskToDelete>>
    /\ UNCHANGED <<configNUM_CORES, pxCurrentTCBs, puxStackBuffer, pxTaskBuffer,
                   path, sel, inflight, heap, heapFault, objVars>>

\* Line 144: vTaskSuspend( xTaskToDelete ) of the caller itself.
A_Suspend(t) ==
    /\ CanStep(t) /\ pc[t] = "A_suspend"
    /\ tstate' \in vTaskSuspend_states(Target(t))
    /\ pxCurrentTCBs' = YieldIfSelf(t, Target(t))
    /\ pc' = [pc EXCEPT ![t] = "A_resumed"]
    /\ UNCHANGED <<configNUM_CORES, uxPriority, xCoreID, xTaskToDelete,
                   puxStackBuffer, pxTaskBuffer, path, sel, inflight,
                   aborted, heap, heapFault, objVars>>

\* Mutant of A_Resumed: the abort() after the suspend is missing.
A_Resumed_NoAbort(t) ==
    /\ CanStep(t) /\ pc[t] = "A_resumed"
    /\ pc' = [pc EXCEPT ![t] = ReturnTo(t)]
    /\ UNCHANGED <<configNUM_CORES, pxCurrentTCBs, tstate, uxPriority, xCoreID,
                   xTaskToDelete, puxStackBuffer, pxTaskBuffer, path, sel, inflight,
                   aborted, heap, heapFault, objVars>>

\* Lines 146-148: the suspended caller ran again: log and abort().
A_Resumed(t) ==
    /\ CanStep(t) /\ pc[t] = "A_resumed"
    /\ Abort("suspend_returned")
    /\ pc' = [pc EXCEPT ![t] = "aborted"]
    /\ UNCHANGED <<configNUM_CORES, pxCurrentTCBs, tstate, uxPriority, xCoreID,
                   xTaskToDelete, puxStackBuffer, pxTaskBuffer, path, sel, inflight,
                   heap, heapFault, objVars>>

\* Mutant of B_Suspend: the suspension request is missing.
B_Suspend_NoRequest(t) ==
    /\ CanStep(t) /\ pc[t] = "B_suspend"
    /\ pc' = [pc EXCEPT ![t] = "B_wait"]
    /\ UNCHANGED <<configNUM_CORES, pxCurrentTCBs, tstate, uxPriority, xCoreID,
                   xTaskToDelete, puxStackBuffer, pxTaskBuffer, path, sel, inflight,
                   aborted, heap, heapFault, objVars>>

\* Line 163: vTaskSuspend( xTaskToDelete ) of a task running on another core.
B_Suspend(t) ==
    /\ CanStep(t) /\ pc[t] = "B_suspend"
    /\ tstate' \in vTaskSuspend_states(Target(t))
    /\ pxCurrentTCBs' = YieldIfSelf(t, Target(t))
    /\ pc' = [pc EXCEPT ![t] = "B_wait"]
    /\ UNCHANGED <<configNUM_CORES, uxPriority, xCoreID, xTaskToDelete,
                   puxStackBuffer, pxTaskBuffer, path, sel, inflight,
                   aborted, heap, heapFault, objVars>>

\* Mutant of B_Wait: the wait loop is left without testing the state.
B_Wait_NoTest(t) ==
    /\ CanStep(t) /\ pc[t] = "B_wait"
    /\ pc' = [pc EXCEPT ![t] = "B_get"]
    /\ UNCHANGED <<configNUM_CORES, pxCurrentTCBs, tstate, uxPriority, xCoreID,
                   xTaskToDelete, puxStackBuffer, pxTaskBuffer, path, sel, inflight,
                   aborted, heap, heapFault, objVars>>

\* Line 166: the loop test, eRunning == eTaskGetState( xTaskToDelete ).
B_Wait(t) ==
    /\ CanStep(t) /\ pc[t] = "B_wait"
    /\ pc' = [pc EXCEPT ![t] = IF Running(Target(t)) THEN "B_yield" ELSE "B_get"]
    /\ UNCHANGED <<configNUM_CORES, pxCurrentTCBs, tstate, uxPriority, xCoreID,
                   xTaskToDelete, puxStackBuffer, pxTaskBuffer, path, sel, inflight,
                   aborted, heap, heapFault, objVars>>

\* Line 168: portYIELD_WITHIN_API(), then back to the loop test.
B_Yield(t) ==
    /\ CanStep(t) /\ pc[t] = "B_yield"
    /\ pc' = [pc EXCEPT ![t] = "B_wait"]
    /\ UNCHANGED <<configNUM_CORES, pxCurrentTCBs, tstate, uxPriority, xCoreID,
                   xTaskToDelete, puxStackBuffer, pxTaskBuffer, path, sel, inflight,
                   aborted, heap, heapFault, objVars>>

\* Mutant of C_Assert: the caller yields its core after the assertion.
C_Assert_Yields(t) ==
    /\ CanStep(t) /\ pc[t] = "C_assert"
    /\ IF Running(Target(t))
       THEN Abort("assert_192") /\ pc' = [pc EXCEPT ![t] = "aborted"]
       ELSE UNCHANGED aborted /\ pc' = [pc EXCEPT ![t] = "C_get"]
    /\ pxCurrentTCBs' = [pxCurrentTCBs EXCEPT ![CoreOf(t)] = "idle"]
    /\ UNCHANGED <<configNUM_CORES, tstate, uxPriority, xCoreID,
                   xTaskToDelete, puxStackBuffer, pxTaskBuffer, path, sel, inflight,
                   heap, heapFault, objVars>>

\* Line 192: configASSERT( eRunning != eTaskGetState( xTaskToDelete ) ).
C_Assert(t) ==
    /\ CanStep(t) /\ pc[t] = "C_assert"
    /\ IF Running(Target(t))
       THEN Abort("assert_192") /\ pc' = [pc EXCEPT ![t] = "aborted"]
       ELSE UNCHANGED aborted /\ pc' = [pc EXCEPT ![t] = "C_get"]
    /\ UNCHANGED <<configNUM_CORES, pxCurrentTCBs, tstate, uxPriority, xCoreID,
                   xTaskToDelete, puxStackBuffer, pxTaskBuffer, path, sel, inflight,
                   heap, heapFault, objVars>>

\* Lines 175-178 and 198-201: xTaskGetStaticBuffers and the three asserts.
GetStaticBuffers(t, from, to) ==
    /\ CanStep(t) /\ pc[t] = from
    /\ LET stack == pxStackOf(Target(t))
           tcb == pxTCBOf(Target(t))
       IN  IF stack = 0 \/ tcb = 0
           THEN /\ Abort("assert_buffers") /\ pc' = [pc EXCEPT ![t] = "aborted"]
                /\ UNCHANGED <<puxStackBuffer, pxTaskBuffer>>
           ELSE /\ puxStackBuffer' = [puxStackBuffer EXCEPT ![t] = stack]
                /\ pxTaskBuffer' = [pxTaskBuffer EXCEPT ![t] = tcb]
                /\ pc' = [pc EXCEPT ![t] = to]
                /\ UNCHANGED aborted
    /\ UNCHANGED <<configNUM_CORES, pxCurrentTCBs, tstate, uxPriority, xCoreID,
                   xTaskToDelete, path, sel, inflight, heap, heapFault, objVars>>

\* Lines 181 and 204: vTaskDelete( xTaskToDelete ).
DeleteTask(t, from, to) ==
    /\ CanStep(t) /\ pc[t] = from
    /\ tstate' = vTaskDelete_state(Target(t))
    /\ pxCurrentTCBs' = YieldIfSelf(t, Target(t))
    /\ pc' = [pc EXCEPT ![t] = to]
    /\ UNCHANGED <<configNUM_CORES, uxPriority, xCoreID, xTaskToDelete,
                   puxStackBuffer, pxTaskBuffer, path, sel, inflight,
                   aborted, heap, heapFault, objVars>>

\* Lines 184 and 207: heap_caps_free( puxStackBuffer ).
FreeStack(t, from, to) ==
    /\ CanStep(t) /\ pc[t] = from
    /\ heap' = FreeIn(heap, puxStackBuffer[t])
    /\ heapFault' = FaultOn(heap, puxStackBuffer[t])
    /\ pc' = [pc EXCEPT ![t] = to]
    /\ UNCHANGED <<configNUM_CORES, pxCurrentTCBs, tstate, uxPriority, xCoreID,
                   xTaskToDelete, puxStackBuffer, pxTaskBuffer, path, sel, inflight,
                   aborted, objVars>>

\* Lines 185 and 208: vPortFree( pxTaskBuffer ), and the return.
FreeTCB(t, from) ==
    /\ CanStep(t) /\ pc[t] = from
    /\ heap' = FreeIn(heap, pxTaskBuffer[t])
    /\ heapFault' = FaultOn(heap, pxTaskBuffer[t])
    /\ pc' = [pc EXCEPT ![t] = ReturnTo(t)]
    /\ UNCHANGED <<configNUM_CORES, pxCurrentTCBs, tstate, uxPriority, xCoreID,
                   xTaskToDelete, puxStackBuffer, pxTaskBuffer, path, sel, inflight,
                   aborted, objVars>>

B_Get(t) == GetStaticBuffers(t, "B_get", "B_delete")
B_Delete(t) == DeleteTask(t, "B_delete", "B_free_stack")
B_FreeStack(t) == FreeStack(t, "B_free_stack", "B_free_tcb")
B_FreeTCB(t) == FreeTCB(t, "B_free_tcb")

C_Get(t) == GetStaticBuffers(t, "C_get", "C_delete")
C_Delete(t) == DeleteTask(t, "C_delete", "C_free_stack")
C_FreeStack(t) == FreeStack(t, "C_free_stack", "C_free_tcb")
C_FreeTCB(t) == FreeTCB(t, "C_free_tcb")

(***************************************************************************)
(* prvTaskDeleteWithCapsTask, the clean-up task "R".                       *)
(***************************************************************************)

\* Line 93: configASSERT( eRunning != eTaskGetState( xTaskToDelete ) ), then
\* line 96 enters vTaskDeleteWithCaps( xTaskToDelete ).
R_Assert(t) ==
    /\ t = "R" /\ CanStep(t) /\ pc[t] = "R_assert"
    /\ IF Running(xTaskToDelete[t])
       THEN Abort("assert_93") /\ pc' = [pc EXCEPT ![t] = "aborted"]
       ELSE UNCHANGED aborted /\ pc' = [pc EXCEPT ![t] = "entry"]
    /\ path' = [path EXCEPT ![t] = {}]
    /\ UNCHANGED <<configNUM_CORES, pxCurrentTCBs, tstate, uxPriority, xCoreID,
                   xTaskToDelete, puxStackBuffer, pxTaskBuffer, sel, inflight,
                   heap, heapFault, objVars>>

\* Line 99: vTaskDelete( NULL ).
R_DeleteSelf(t) ==
    /\ t = "R" /\ CanStep(t) /\ pc[t] = "R_delself"
    /\ tstate' = vTaskDelete_state(t)
    /\ pxCurrentTCBs' = YieldIfSelf(t, t)
    /\ pc' = [pc EXCEPT ![t] = "done"]
    /\ UNCHANGED <<configNUM_CORES, uxPriority, xCoreID, xTaskToDelete,
                   puxStackBuffer, pxTaskBuffer, path, sel, inflight,
                   aborted, heap, heapFault, objVars>>

(***************************************************************************)
(* The task-deletion specification.                                        *)
(***************************************************************************)

Affinities == {{c} : c \in Cores} \cup {Cores}

EmptyLast == [op |-> "none", kind |-> "none", ok |-> FALSE, caps |-> 0, size |-> 0,
              before |-> {}, objsBefore |-> {}, owned |-> {}, destroyed |-> FALSE]

Init ==
    /\ configNUM_CORES \in 1 .. MaxCores
    /\ pxCurrentTCBs = [c \in Cores |-> "idle"]
    /\ tstate = [t \in Tasks |-> IF t = "R" THEN "none" ELSE "ready"]
    /\ \E pT \in 1 .. MaxPrio, pS \in 1 .. MaxPrio :
          uxPriority = [t \in Tasks |-> IF t = "S" THEN pS ELSE pT]
    /\ \E aT \in Affinities, aS \in Affinities :
          xCoreID = [t \in Tasks |-> IF t = "S" THEN aS ELSE aT]
    /\ pc = [t \in Tasks |-> IF t = "R" THEN "none" ELSE "run"]
    /\ xTaskToDelete = [t \in Tasks |-> NULL]
    /\ puxStackBuffer = [t \in Tasks |-> 0]
    /\ pxTaskBuffer = [t \in Tasks |-> 0]
    /\ path = [t \in Tasks |-> {}]
    /\ sel = [t \in Tasks |-> [running |-> FALSE, suspended |-> FALSE]]
    /\ inflight = FALSE
    /\ aborted = "no"
    /\ heap = {[addr |-> pxStackOf("T"), by |-> Caps], [addr |-> pxTCBOf("T"), by |-> Port]}
    /\ heapFault = FALSE
    /\ objs = {}
    /\ log = <<>>
    /\ last = EmptyLast

Next ==
    \/ \E c \in Cores : SwitchContext(c)
    \/ \E t \in Tasks :
          \/ CallDelete(t) \/ UserSuspend(t) \/ Select(t)
          \/ A_Create(t) \/ A_Suspend(t)
          \/ B_Suspend(t) \/ B_Wait(t) \/ B_Yield(t)
          \/ B_Get(t) \/ B_Delete(t) \/ B_FreeStack(t) \/ B_FreeTCB(t)
          \/ C_Assert(t) \/ C_Get(t) \/ C_Delete(t) \/ C_FreeStack(t) \/ C_FreeTCB(t)
          \/ R_Assert(t) \/ R_DeleteSelf(t)

Spec == Init /\ [][Next]_vars

\* Without a vTaskResume from the application the suspended caller of path A
\* never runs again, so Next has no step for lines 146-148; SpecR adds the
\* application's vTaskResume and those lines.
NextR ==
    \/ Next
    \/ \E t \in Tasks : UserResume(t) \/ A_Resumed(t)

SpecR == Init /\ [][NextR]_vars

(***************************************************************************)
(* Properties of the task-deletion state machine.                          *)
(***************************************************************************)

StackFreed == pxStackOf("T") \notin Live(heap)
TCBFreed == pxTCBOf("T") \notin Live(heap)

\* C1: the stack buffer and the control block of a task are never freed
\* while the task is still registered with the scheduler or running on a core.
C1_NoFreeWhileLive == (StackFreed \/ TCBFreed) => ~TaskLive("T")

\* Lines 146-148 are never reached when nobody resumes the task.
A_ResumedUnreachable == \A t \in Tasks : ~(pc[t] = "A_resumed" /\ Running(t))

SelfDeleting(t) == pc[t] \in {"A_create", "A_suspend", "A_resumed"}

\* C2: once a task has entered the self-delete branch, every further step
\* of that task stays inside the branch or aborts the process: control never
\* returns to the caller of vTaskDeleteWithCaps.
C2_SelfDeleteNeverReturns ==
    [][\A t \in Tasks :
          (SelfDeleting(t) /\ pc'[t] # pc[t]) => (SelfDeleting(t)' \/ aborted' # "no")]_vars

\* C2 witness: the self-deleting task was resumed, ran again and aborted.
C2_Witness == pc["T"] = "aborted" /\ aborted = "suspend_returned"

InB(t) == path[t] = {"B"}
Returned(t) == pc[t] \in {"returned", "R_delself", "done"}

\* C4: on the cross-core path, from the exit of the spin-wait to the
\* destruction the target is not running on any core, and from the
\* destruction on it is not live; at the return both buffers are freed.
C4_CrossCoreDelete ==
    \A t \in Tasks : InB(t) =>
        /\ pc[t] \in {"B_get", "B_delete"} => ~Running(Target(t))
        /\ pc[t] \in {"B_free_stack", "B_free_tcb"} => ~TaskLive(Target(t))
        /\ Returned(t) => (StackFreed /\ TCBFreed /\ ~TaskLive(Target(t)))

\* C4 witness: "S" has returned from the cross-core path.
C4_Witness == InB("S") /\ pc["S"] = "returned" /\ StackFreed /\ TCBFreed

InCall(t) ==
    pc[t] \in {"A_create", "A_suspend", "A_resumed",
               "B_suspend", "B_wait", "B_yield", "B_get", "B_delete", "B_free_stack", "B_free_tcb",
               "C_assert", "C_get", "C_delete", "C_free_stack", "C_free_tcb"}

PcPath(t) ==
    IF pc[t] \in {"A_create", "A_suspend", "A_resumed"} THEN "A"
    ELSE IF pc[t] \in {"C_assert", "C_get", "C_delete", "C_free_stack", "C_free_tcb"} THEN "C"
    ELSE "B"

\* C5: a call enters exactly one branch: A exactly when the target is NULL
\* or the caller; B exactly when it is another task, the build has more than
\* one core and the target was running at the test; C otherwise.  On one core
\* another task is never running at the test.
C5_ExactlyOnePath ==
    \A t \in Tasks : InCall(t) =>
        LET isSelf == xTaskToDelete[t] \in {NULL, t}
        IN  /\ path[t] = {PcPath(t)}
            /\ (PcPath(t) = "A") <=> isSelf
            /\ (PcPath(t) = "B") <=> (~isSelf /\ configNUM_CORES > 1 /\ sel[t].running)
            /\ (PcPath(t) = "C") <=> (~isSelf /\ ~sel[t].running)

\* C5 witness: the clean-up task is on path B while its target is on path A.
C5_Witness == path["R"] = {"B"} /\ path["T"] = {"A"} /\ InCall("R") /\ InCall("T")

\* C11: a self-delete goes past the creation of the clean-up task only when
\* the task was created; when the creation failed the process has aborted
\* and the caller is still ready and on its core (not suspended), both
\* buffers are live and no task has been deleted.
C11_CreateFailureAborts ==
    /\ \A t \in Tasks : pc[t] \in {"A_suspend", "A_resumed"} => tstate["R"] # "none"
    /\ aborted = "create_failed" =>
          /\ \E t \in Tasks : pc[t] = "aborted" /\ tstate[t] = "ready" /\ Running(t)
          /\ tstate["R"] = "none"
          /\ ~StackFreed /\ ~TCBFreed
          /\ \A u \in Tasks : tstate[u] # "deleted"

\* C11 witness: the creation failed while the other application task exists.
C11_Witness == aborted = "create_failed" /\ pc["T"] = "aborted" /\ tstate["S"] = "ready"

GetPcs == {"B_get", "C_get"}
DeletePcs == {"B_delete", "C_delete"}
FreePcs == {"B_free_stack", "B_free_tcb", "C_free_stack", "C_free_tcb"}

\* The deletion order on the task paths B and C: a call reaches the
\* destruction only from the introspection, holding the task's two buffers,
\* still live; it reaches the frees only from the destruction; and every
\* free is of a pointer the introspection returned, after the destruction.
TaskDeletionOrder ==
    [][/\ \A t \in Tasks :
             /\ (pc'[t] \in DeletePcs /\ pc[t] # pc'[t]) =>
                    /\ pc[t] \in GetPcs
                    /\ puxStackBuffer'[t] = pxStackOf(Target(t))
                    /\ pxTaskBuffer'[t] = pxTCBOf(Target(t))
                    /\ {puxStackBuffer'[t], pxTaskBuffer'[t]} \subseteq Live(heap')
             /\ (pc'[t] \in {"B_free_stack", "C_free_stack"} /\ pc[t] # pc'[t]) =>
                    /\ pc[t] \in DeletePcs
                    /\ tstate'[Target(t)] = "deleted"
                    /\ heap' = heap
        /\ heap' # heap =>
             \E u \in Tasks :
                 /\ pc[u] \in FreePcs /\ pc'[u] # pc[u]
                 /\ Live(heap) \ Live(heap') \in {{puxStackBuffer[u]}, {pxTaskBuffer[u]}}]_vars

CPcs == {"C_assert", "C_get", "C_delete", "C_free_stack", "C_free_tcb"}

\* The statement after the one at p in the final else-branch.
CSucc(t) ==
    CASE pc[t] = "C_assert" -> "C_get"
      [] pc[t] = "C_get" -> "C_delete"
      [] pc[t] = "C_delete" -> "C_free_stack"
      [] pc[t] = "C_free_stack" -> "C_free_tcb"
      [] OTHER -> ReturnTo(t)

OnCSuspended(t) == path[t] = {"C"} /\ sel[t].suspended

\* C13: when the target is another task and was suspended at the branch
\* test, every step of the call is the next statement of the final
\* else-branch: assertion, introspection, destruction, free of the stack,
\* free of the control block, return.  No step aborts, gives up the core,
\* creates a task or changes a task's state other than the destruction; at
\* the return the target is gone and both buffers are freed.
C13_SuspendedTargetSinglePass ==
    /\ [](\A t \in Tasks : (OnCSuspended(t) /\ Returned(t)) =>
              (StackFreed /\ TCBFreed /\ ~TaskLive(Target(t))))
    /\ [][\A t \in Tasks :
             (OnCSuspended(t) /\ pc[t] \in CPcs /\ pc'[t] # pc[t]) =>
                 /\ pc'[t] = CSucc(t)
                 /\ aborted' = "no"
                 /\ pxCurrentTCBs' = pxCurrentTCBs
                 /\ tstate' = IF pc[t] = "C_delete"
                              THEN [tstate EXCEPT ![Target(t)] = "deleted"]
                              ELSE tstate
                 /\ pc[t] \in {"C_assert", "C_get", "C_delete"} => heap' = heap]_vars

\* C13 witness: "S" deleted the suspended task and returned.
C13_Witness ==
    /\ OnCSuspended("S") /\ pc["S"] = "returned"
    /\ tstate["T"] = "deleted" /\ StackFreed /\ TCBFreed

\* C15: the assertion at line 93 never fails: whenever the clean-up task
\* executes it, the self-deleting task is not running on any core.
C15_RescuerAssertHolds ==
    /\ aborted # "assert_93"
    /\ \A t \in Tasks : (pc[t] = "R_assert" /\ Running(t)) => ~Running(xTaskToDelete[t])

\* With a target pinned to one core, or on a one-core build, the assertion
\* at line 93 holds.
RescuerAssertHoldsPinned ==
    (configNUM_CORES = 1 \/ Cardinality(xCoreID["T"]) = 1) => C15_RescuerAssertHolds

\* C16: on the final else-branch the assertion at line 192 never fails and
\* the target is not running on any core whenever the caller is about to
\* execute the assertion, the introspection or the destruction.
C16_NotRunningOnPathC ==
    /\ aborted # "assert_192"
    /\ \A t \in Tasks :
          (path[t] = {"C"} /\ pc[t] \in {"C_assert", "C_get", "C_delete"} /\ Running(t)) =>
              ~Running(Target(t))

\* On a one-core build, and when the target was suspended at the branch
\* test, the target is not running on the final else-branch.
NotRunningOnPathCSafe ==
    \A t \in Tasks :
        (path[t] = {"C"} /\ pc[t] \in {"C_assert", "C_get", "C_delete"} /\ Running(t)
         /\ (configNUM_CORES = 1 \/ sel[t].suspended)) => ~Running(Target(t))

\* On the task paths nothing is freed twice or by the wrong allocator
\* family, the clean-up task's call never enters the self-delete branch, and
\* the clean-up task is created once.
TaskNoDoubleFreeNoReentry ==
    /\ [](~heapFault /\ "A" \notin path["R"])
    /\ [][/\ (tstate["R"] # "none" /\ tstate'["R"] # tstate["R"]) => tstate'["R"] = "deleted"
          /\ heap' # heap =>
                \E t \in Tasks, b \in heap :
                    /\ heap' = heap \ {b}
                    /\ pc'[t] # pc[t]
                    /\ pc[t] \in {"B_free_stack", "C_free_stack"} => b.by = Caps
                    /\ pc[t] \in {"B_free_tcb", "C_free_tcb"} => b.by = Port]_vars

(***************************************************************************)
(* Scheduling fairness: a core that must switch does; ready tasks of the   *)
(* top priority take turns on a core (time slicing); a task that keeps     *)
(* being given a core executes its next call.                              *)
(***************************************************************************)
TaskStep(t) ==
    \/ Select(t) \/ A_Create(t) \/ A_Suspend(t)
    \/ B_Suspend(t) \/ B_Wait(t) \/ B_Yield(t)
    \/ B_Get(t) \/ B_Delete(t) \/ B_FreeStack(t) \/ B_FreeTCB(t)
    \/ C_Assert(t) \/ C_Get(t) \/ C_Delete(t) \/ C_FreeStack(t) \/ C_FreeTCB(t)
    \/ R_Assert(t) \/ R_DeleteSelf(t)

SwitchTo(c, n) == c \in Cores /\ SwitchContext(c) /\ pxCurrentTCBs'[c] = n

Fairness ==
    /\ \A c \in 0 .. (MaxCores - 1) : WF_vars(c \in Cores /\ SwitchContext(c))
    /\ \A c \in 0 .. (MaxCores - 1) : \A n \in Tasks : SF_vars(SwitchTo(c, n))
    /\ \A t \in Tasks : SF_vars(TaskStep(t))

SpecFair == Init /\ [][Next]_vars /\ Fairness

\* The clean-up task exists for the self-deleting task t.
RescuerCreated(t) == pc[t] \in {"A_suspend", "A_resumed"}

\* The self-deleting task is off the scheduler, both its buffers are freed
\* and the clean-up task has deleted itself.
Reclaimed == ~TaskLive("T") /\ StackFreed /\ TCBFreed /\ pc["R"] = "done"

\* C3: once the clean-up task has been created for a self-deleting task,
\* the task is eventually removed from the scheduler, its stack and control
\* block are freed and the clean-up task deletes itself.
C3_SelfDeleteReclaimed == RescuerCreated("T") ~> Reclaimed

\* C17: a call that has issued the suspension request of the cross-core
\* branch and is at the test of the wait loop eventually leaves the loop and
\* returns.  The callers of that branch are the application task "S" and
\* the clean-up task "R".
C17_SpinWaitTerminates ==
    \A t \in {"S", "R"} : (InB(t) /\ pc[t] = "B_wait") ~> (InB(t) /\ Returned(t))

\* C17 witness: "S" is in the body of the wait loop: the target is suspended
\* and still on its core.
C17_Witness ==
    /\ InB("S") /\ pc["S"] = "B_yield"
    /\ tstate["T"] = "suspended" /\ Running("T")

\* On a one-core build the reclamation always completes.
C3_SingleCore == (configNUM_CORES = 1 /\ RescuerCreated("T")) ~> Reclaimed

\* C19: the clean-up task has the priority and the core affinity of the
\* self-deleting task.
C19_SamePriorityAndAffinity ==
    \A t \in Tasks : RescuerCreated(t) =>
        /\ uxPriority["R"] = uxPriority[t]
        /\ xCoreID["R"] = xCoreID[t]

\* The clean-up task has the priority of the self-deleting task and is
\* pinned to the core the task was running on when it created it; that is
\* the task's affinity exactly when the task is pinned to one core.
SamePriorityPinnedToCallerCore ==
    \A t \in Tasks : RescuerCreated(t) =>
        /\ uxPriority["R"] = uxPriority[t]
        /\ Cardinality(xCoreID["R"]) = 1
        /\ xCoreID["R"] \subseteq xCoreID[t]
        /\ (xCoreID["R"] = xCoreID[t]) <=> (Cardinality(xCoreID[t]) = 1)

(***************************************************************************)
(* The creation and deletion wrappers (SpecObj).  A wrapper call is one    *)
(* action; log holds the allocator and kernel calls it issued, in order:   *)
(* [call, slot, arg, ret] with slot "cb" (control block), "data" (stack,   *)
(* storage) or "obj".                                                      *)
(***************************************************************************)

Kinds == {"task", "queue", "sem", "stream", "message", "event"}
QueueTypes == {"mutex", "counting", "binary", "recursive"}

\* The allocator: a request fails (NULL) or returns an address that is not live.
Outcomes(h) == {0} \cup (Addr \ Live(h))
Malloc(h, a, by) == IF a = 0 THEN h ELSE h \cup {[addr |-> a, by |-> by]}

Req(slot, by, caps) == [slot |-> slot, by |-> by, caps |-> caps]
Fr(slot, by) == [slot |-> slot, by |-> by]

\* Lines 50, 54: pvPortMalloc for the TCB, heap_caps_malloc for the stack.
xTaskCreate_allocs(uxMemoryCaps) ==
    <<Req("cb", Port, 0), Req("data", Caps, uxMemoryCaps)>>

\* Mutant of xQueueCreate_allocs: the uxItemSize == 0 test is missing.
xQueueCreate_allocs_AlwaysStorage(uxItemSize, uxMemoryCaps) ==
    <<Req("cb", Caps, uxMemoryCaps), Req("data", Caps, uxMemoryCaps)>>

\* Lines 223-232: the queue structure, and the storage unless uxItemSize == 0.
xQueueCreate_allocs(uxItemSize, uxMemoryCaps) ==
    IF uxItemSize = 0
    THEN <<Req("cb", Caps, uxMemoryCaps)>>
    ELSE <<Req("cb", Caps, uxMemoryCaps), Req("data", Caps, uxMemoryCaps)>>

\* Line 284.
xSemaphoreCreate_allocs(uxMemoryCaps) == <<Req("cb", Caps, uxMemoryCaps)>>

\* Mutant of xStreamBufferCreate_allocs: the storage area is requested with
\* a fixed mask instead of the caller's.
xStreamBufferCreate_allocs_FixedCaps(uxMemoryCaps) ==
    <<Req("cb", Caps, uxMemoryCaps), Req("data", Caps, 1)>>

\* Lines 347-348.
xStreamBufferCreate_allocs(uxMemoryCaps) ==
    <<Req("cb", Caps, uxMemoryCaps), Req("data", Caps, uxMemoryCaps)>>

\* Line 421.
xEventGroupCreate_allocs(uxMemoryCaps) == <<Req("cb", Caps, uxMemoryCaps)>>

Allocs(kind, uxItemSize, uxMemoryCaps) ==
    CASE kind = "task" -> xTaskCreate_allocs(uxMemoryCaps)
      [] kind = "queue" -> xQueueCreate_allocs(uxItemSize, uxMemoryCaps)
      [] kind = "sem" -> xSemaphoreCreate_allocs(uxMemoryCaps)
      [] kind \in {"stream", "message"} -> xStreamBufferCreate_allocs(uxMemoryCaps)
      [] kind = "event" -> xEventGroupCreate_allocs(uxMemoryCaps)

\* Lines 56, 234, 286, 350, 423: the pointers tested against NULL before the
\* constructor is called.
MustBeNonNull(kind, uxItemSize) ==
    IF kind \in {"task", "stream", "message"} \/ (kind = "queue" /\ uxItemSize > 0)
    THEN {"cb", "data"}
    ELSE {"cb"}

\* Lines 62, 240, 292-307, 356-363, 429: the static constructor called.
Constructor(kind, ucQueueType) ==
    CASE kind = "task" -> "xTaskCreateStaticPinnedToCore"
      [] kind = "queue" -> "xQueueCreateStatic"
      [] kind = "sem" /\ ucQueueType = "mutex" -> "xSemaphoreCreateMutexStatic"
      [] kind = "sem" /\ ucQueueType = "counting" -> "xSemaphoreCreateCountingStatic"
      [] kind = "sem" /\ ucQueueType = "binary" -> "xSemaphoreCreateBinaryStatic"
      [] kind = "sem" -> "xSemaphoreCreateRecursiveMutexStatic"
      [] kind = "message" -> "xMessageBufferCreateStatic"
      [] kind = "stream" -> "xStreamBufferCreateStatic"
      [] kind = "event" -> "xEventGroupCreateStatic"

\* Lines 77-80: the err label of xTaskCreatePinnedToCoreWithCaps.
xTaskCreate_err == <<Fr("data", "heap_caps_free"), Fr("cb", "vPortFree")>>

\* Mutant of xQueueCreate_err: the queue structure is not freed.
xQueueCreate_err_StorageOnly == <<Fr("data", "heap_caps_free")>>

\* Lines 249-252: the err label of xQueueCreateWithCaps.
xQueueCreate_err == <<Fr("data", "heap_caps_free"), Fr("cb", "heap_caps_free")>>

\* Lines 372-375: the err label of xStreamBufferGenericCreateWithCaps.
xStreamBufferCreate_err == <<Fr("data", "heap_caps_free"), Fr("cb", "heap_caps_free")>>

\* Mutant of xSemaphoreCreate_ctorFailed: the buffer is not freed.
xSemaphoreCreate_ctorFailed_NoFree == <<>>

\* Lines 309-312: the constructor returned NULL.
xSemaphoreCreate_ctorFailed == <<Fr("cb", "heap_caps_free")>>

\* Lines 431-434: the constructor returned NULL.
xEventGroupCreate_ctorFailed == <<Fr("cb", "heap_caps_free")>>

\* The frees of a failed creation: after a failed allocation (lines 58, 236,
\* 288, 352, 425) and after a failed constructor (lines 67, 244, 311, 367, 433).
FailFrees(kind, allocated) ==
    CASE kind = "task" -> xTaskCreate_err
      [] kind = "queue" -> xQueueCreate_err
      [] kind \in {"stream", "message"} -> xStreamBufferCreate_err
      [] kind = "sem" -> IF allocated THEN xSemaphoreCreate_ctorFailed ELSE <<>>
      [] kind = "event" -> IF allocated THEN xEventGroupCreate_ctorFailed ELSE <<>>

\* One allocation request served by the allocator, every outcome.
AllocStep(run, req) ==
    {[heap |-> Malloc(run.heap, a, req.by),
      fault |-> run.fault,
      ptr |-> [run.ptr EXCEPT ![req.slot] = a],
      log |-> Append(run.log, [call |-> req.by, slot |-> req.slot, arg |-> req.caps, ret |-> a])]
     : a \in Outcomes(run.heap)}

\* The allocation requests of a creation, in order, every outcome.
AllocRuns(plan, h) ==
    LET r0 == [heap |-> h, fault |-> FALSE, ptr |-> [cb |-> 0, data |-> 0], log |-> <<>>]
    IN  IF Len(plan) = 1
        THEN AllocStep(r0, plan[1])
        ELSE UNION {AllocStep(r1, plan[2]) : r1 \in AllocStep(r0, plan[1])}

\* heap_caps_free / vPortFree of the pointers in the named slots, in order.
RECURSIVE FreeAll(_, _)
FreeAll(run, frees) ==
    IF frees = <<>> THEN run
    ELSE LET f == Head(frees)
             p == run.ptr[f.slot]
         IN  FreeAll([heap |-> FreeIn(run.heap, p),
                      fault |-> run.fault \/ FaultOn(run.heap, p),
                      ptr |-> run.ptr,
                      log |-> Append(run.log, [call |-> f.by, slot |-> f.slot, arg |-> p, ret |-> 0])],
                     Tail(frees))

CallEntry(call, handle) == [call |-> call, slot |-> "obj", arg |-> 0, ret |-> handle]

\* A create-with-caps call: the allocations, the NULL tests, the static
\* constructor (which the kernel may refuse), the rollback.
Create(kind, uxItemSize, ucQueueType, uxMemoryCaps) ==
    /\ aborted = "no" /\ ~heapFault /\ last.op = "none"
    /\ \E run \in AllocRuns(Allocs(kind, uxItemSize, uxMemoryCaps), heap), ctorOk \in BOOLEAN :
          LET allocated == \A sl \in MustBeNonNull(kind, uxItemSize) : run.ptr[sl] # 0
              handle == IF ctorOk THEN run.ptr["cb"] ELSE 0
              called == IF allocated
                        THEN [run EXCEPT !.log = Append(@, CallEntry(Constructor(kind, ucQueueType), handle))]
                        ELSE run
              built == allocated /\ ctorOk
              final == IF built THEN called ELSE FreeAll(called, FailFrees(kind, allocated))
              obj == [h |-> handle, kind |-> kind, size |-> uxItemSize,
                      cb |-> run.ptr["cb"], data |-> run.ptr["data"], static |-> TRUE]
          IN  /\ heap' = final.heap
              /\ heapFault' = final.fault
              /\ log' = final.log
              /\ objs' = IF built THEN objs \cup {obj} ELSE objs
              /\ last' = [op |-> "create", kind |-> kind, ok |-> built,
                          caps |-> uxMemoryCaps, size |-> uxItemSize,
                          before |-> heap, objsBefore |-> objs,
                          owned |-> Live(final.heap) \ Live(heap),
                          destroyed |-> FALSE]
    /\ UNCHANGED <<taskVars, aborted>>

xTaskCreatePinnedToCoreWithCaps ==
    \E caps \in 1 .. MaxCaps : Create("task", 0, "none", caps)
xQueueCreateWithCaps ==
    \E caps \in 1 .. MaxCaps, sz \in 0 .. MaxItemSize : Create("queue", sz, "none", caps)
xSemaphoreCreateGenericWithCaps ==
    \E caps \in 1 .. MaxCaps, qt \in QueueTypes : Create("sem", 0, qt, caps)
xStreamBufferGenericCreateWithCaps ==
    \E caps \in 1 .. MaxCaps, isMessageBuffer \in BOOLEAN :
        Create(IF isMessageBuffer THEN "message" ELSE "stream", 0, "none", caps)
xEventGroupCreateWithCaps ==
    \E caps \in 1 .. MaxCaps : Create("event", 0, "none", caps)

\* Lines 175/198, 262, 324, 387-394, 446: the introspection call.
Introspection(kind) ==
    CASE kind = "task" -> "xTaskGetStaticBuffers"
      [] kind = "queue" -> "xQueueGetStaticBuffers"
      [] kind = "sem" -> "xSemaphoreGetStaticBuffer"
      [] kind = "message" -> "xMessageBufferGetStaticBuffers"
      [] kind = "stream" -> "xStreamBufferGetStaticBuffers"
      [] kind = "event" -> "xEventGroupGetStaticBuffer"

\* Lines 204, 266, 328, 399-406, 450: the destructor called.  For a stream
\* buffer that is not a message buffer the code calls vSemaphoreDelete.
Destructor(kind) ==
    CASE kind = "task" -> "vTaskDelete"
      [] kind = "queue" -> "vQueueDelete"
      [] kind = "sem" -> "vSemaphoreDelete"
      [] kind = "message" -> "vMessageBufferDelete"
      [] kind = "stream" -> "vSemaphoreDelete"
      [] kind = "event" -> "vEventGroupDelete"

\* Lines 207-208, 269-270, 331, 409-410, 453: the frees of a deletion.
DeleteFrees(kind) ==
    CASE kind = "task" -> <<Fr("data", "heap_caps_free"), Fr("cb", "vPortFree")>>
      [] kind \in {"queue", "stream", "message"} ->
             <<Fr("cb", "heap_caps_free"), Fr("data", "heap_caps_free")>>
      [] kind \in {"sem", "event"} -> <<Fr("cb", "heap_caps_free")>>

\* The kinds of object a kernel destructor destroys.
Destroys(dtor) ==
    CASE dtor = "vTaskDelete" -> {"task"}
      [] dtor \in {"vQueueDelete", "vSemaphoreDelete"} -> {"queue", "sem"}
      [] dtor \in {"vStreamBufferDelete", "vMessageBufferDelete"} -> {"stream", "message"}
      [] dtor = "vEventGroupDelete" -> {"event"}

\* The allocator after the kernel destructor ran on object o.  A destructor
\* of o's kind leaves static buffers alone and frees the memory of an object
\* the kernel allocated.  The queue destructor run on a stream buffer reads
\* the queue's statically-allocated flag outside the stream buffer's control
\* block: it may pass the control block to vPortFree.
KernelDestroy(dtor, o, h) ==
    IF o.kind \in Destroys(dtor)
    THEN IF o.static THEN {h} ELSE {FreeIn(h, o.cb)}
    ELSE {h, FreeIn(h, o.cb)}

\* The introspection call on object o: pdTRUE and the pointers given to the
\* static constructor; pdFALSE for an object the kernel allocated itself,
\* and then the output pointers are not written (the locals they were to
\* fill are uninitialised).
xGetStaticBuffers(o) ==
    IF o.static
    THEN {[xResult |-> TRUE, cb |-> o.cb, data |-> o.data]}
    ELSE [xResult : {FALSE}, cb : 0 .. MaxAddr, data : 0 .. MaxAddr]

\* Mutant of configASSERT: assertions are compiled out.
configASSERT_Disabled(x) == TRUE

\* Lines 263, 325, 396, 447 (176, 199 for a task): configASSERT( xResult ==
\* pdTRUE ): the call goes on exactly when the condition holds, and the
\* process aborts otherwise.
configASSERT(x) == x

\* Mutant of Delete: the buffers are freed before the destructor is called.
Delete_FreeFirst(o) ==
    /\ aborted = "no" /\ ~heapFault /\ last.op = "none"
    /\ \E got \in xGetStaticBuffers(o) :
          LET r0 == [heap |-> heap, fault |-> FALSE,
                     ptr |-> [cb |-> got.cb, data |-> got.data],
                     log |-> <<CallEntry(Introspection(o.kind), o.h)>>]
              freed == FreeAll(r0, DeleteFrees(o.kind))
          IN  /\ got.xResult
              /\ heap' \in KernelDestroy(Destructor(o.kind), o, freed.heap)
              /\ heapFault' = freed.fault
              /\ log' = Append(freed.log, CallEntry(Destructor(o.kind), o.h))
              /\ objs' = objs \ {o}
              /\ last' = [op |-> "delete", kind |-> o.kind, ok |-> TRUE,
                          caps |-> 0, size |-> o.size,
                          before |-> heap, objsBefore |-> objs,
                          owned |-> {got.cb, got.data} \ {0},
                          destroyed |-> o.kind \in Destroys(Destructor(o.kind))]
    /\ UNCHANGED <<taskVars, aborted>>

\* A delete-with-caps call on a live handle: introspection, the configASSERT
\* on its result, the destructor, the frees.  For a task these are lines
\* 188-208, run on a task that is not running.
Delete(o) ==
    /\ aborted = "no" /\ ~heapFault /\ last.op = "none"
    /\ \E got \in xGetStaticBuffers(o) :
          IF configASSERT(got.xResult)
          THEN \E h1 \in KernelDestroy(Destructor(o.kind), o, heap) :
                  LET r0 == [heap |-> h1, fault |-> FALSE,
                             ptr |-> [cb |-> got.cb, data |-> got.data],
                             log |-> <<CallEntry(Introspection(o.kind), IF got.xResult THEN o.h ELSE 0),
                                       CallEntry(Destructor(o.kind), o.h)>>]
                      final == FreeAll(r0, DeleteFrees(o.kind))
                  IN  /\ heap' = final.heap
                      /\ heapFault' = final.fault
                      /\ log' = final.log
                      /\ objs' = objs \ {o}
                      /\ last' = [op |-> "delete", kind |-> o.kind, ok |-> TRUE,
                                  caps |-> 0, size |-> o.size,
                                  before |-> heap, objsBefore |-> objs,
                                  owned |-> {got.cb, got.data} \ {0},
                                  destroyed |-> o.kind \in Destroys(Destructor(o.kind))]
                      /\ UNCHANGED aborted
          ELSE /\ Abort("assert_xResult")
               /\ log' = <<CallEntry(Introspection(o.kind), 0)>>
               /\ last' = [op |-> "delete", kind |-> o.kind, ok |-> FALSE,
                           caps |-> 0, size |-> o.size,
                           before |-> heap, objsBefore |-> objs,
                           owned |-> {}, destroyed |-> FALSE]
               /\ UNCHANGED <<heap, heapFault, objs>>
    /\ UNCHANGED taskVars

vTaskDeleteWithCaps_NotRunning == \E o \in objs : o.kind = "task" /\ Delete(o)
vQueueDeleteWithCaps == \E o \in objs : o.kind = "queue" /\ Delete(o)
vSemaphoreDeleteWithCaps == \E o \in objs : o.kind = "sem" /\ Delete(o)
vStreamBufferGenericDeleteWithCaps ==
    \E o \in objs : o.kind \in {"stream", "message"} /\ Delete(o)
vEventGroupDeleteWithCaps == \E o \in objs : o.kind = "event" /\ Delete(o)

\* Application code creates a kernel object with the kernel's own creation
\* call (xQueueCreate, xTaskCreate, ...): the kernel allocates its memory.
xCreateDynamic ==
    /\ aborted = "no" /\ ~heapFault /\ last.op = "none"
    /\ \E kind \in Kinds, a \in Addr \ Live(heap) :
          /\ heap' = Malloc(heap, a, Port)
          /\ objs' = objs \cup {[h |-> a, kind |-> kind, size |-> 0,
                                 cb |-> a, data |-> 0, static |-> FALSE]}
    /\ UNCHANGED <<taskVars, aborted, heapFault, log, last>>

\* log and last hold one wrapper call at a time: the record of a call is
\* dropped before the next call is made.
ForgetCall ==
    /\ aborted = "no" /\ ~heapFault /\ last.op # "none"
    /\ log' = <<>>
    /\ last' = EmptyLast
    /\ UNCHANGED <<taskVars, aborted, heap, heapFault, objs>>

InitObj ==
    /\ configNUM_CORES = 1
    /\ pxCurrentTCBs = [c \in Cores |-> "idle"]
    /\ tstate = [t \in Tasks |-> "none"]
    /\ uxPriority = [t \in Tasks |-> 1]
    /\ xCoreID = [t \in Tasks |-> Cores]
    /\ pc = [t \in Tasks |-> "none"]
    /\ xTaskToDelete = [t \in Tasks |-> NULL]
    /\ puxStackBuffer = [t \in Tasks |-> 0]
    /\ pxTaskBuffer = [t \in Tasks |-> 0]
    /\ path = [t \in Tasks |-> {}]
    /\ sel = [t \in Tasks |-> [running |-> FALSE, suspended |-> FALSE]]
    /\ inflight = FALSE
    /\ aborted = "no"
    /\ heap = {}
    /\ heapFault = FALSE
    /\ objs = {}
    /\ log = <<>>
    /\ last = EmptyLast

NextObj ==
    \/ xTaskCreatePinnedToCoreWithCaps
    \/ xQueueCreateWithCaps
    \/ xSemaphoreCreateGenericWithCaps
    \/ xStreamBufferGenericCreateWithCaps
    \/ xEventGroupCreateWithCaps
    \/ vTaskDeleteWithCaps_NotRunning
    \/ vQueueDeleteWithCaps
    \/ vSemaphoreDeleteWithCaps
    \/ vStreamBufferGenericDeleteWithCaps
    \/ vEventGroupDeleteWithCaps
    \/ xCreateDynamic
    \/ ForgetCall

SpecObj == InitObj /\ [][NextObj]_vars

(***************************************************************************)
(* Properties of the creation and deletion wrappers.                       *)
(***************************************************************************)

LogIdx == 1 .. Len(log)
IsMalloc(e) == e.call \in {Port, Caps}
IsFree(e) == e.call \in {"heap_caps_free", "vPortFree"}
IsConstructor(e) ==
    e.slot = "obj" /\ (\E qt \in QueueTypes : e.call = Constructor(last.kind, qt))

\* C6: a successful create adds exactly the buffers it allocated to the live
\* allocations, and the matching delete removes exactly those buffers with
\* no invalid free: create followed by delete is zero net allocation.
C6_RoundTrip ==
    /\ (last.op = "create" /\ last.ok) =>
          /\ Live(last.before) \subseteq Live(heap)
          /\ last.owned = Live(heap) \ Live(last.before)
          /\ \E o \in objs : last.owned = {o.cb, o.data} \ {0}
    /\ last.op = "delete" =>
          /\ ~heapFault
          /\ last.owned \subseteq Live(last.before)
          /\ Live(heap) = Live(last.before) \ last.owned

\* The round trip holds for every kind but the stream buffer.
C6_RoundTripButStream == (last.kind # "stream") => C6_RoundTrip

TwoBuffers == last.kind \in {"task", "stream", "message"} \/ (last.kind = "queue" /\ last.size > 0)

AllocFailed == \E i \in LogIdx : IsMalloc(log[i]) /\ log[i].ret = 0

RolledBack ==
    /\ ~last.ok
    /\ heap = last.before
    /\ objs = last.objsBefore
    /\ ~heapFault

\* C7: when a kind needs two buffers and an allocation fails, both
\* allocations are attempted first, the constructor is not called, the call
\* fails, no object is registered and every buffer that was allocated is
\* freed: the live allocations are those before the call.
C7_AllocFailureRollback ==
    (last.op = "create" /\ TwoBuffers /\ AllocFailed) =>
        /\ RolledBack
        /\ Len(log) >= 2 /\ IsMalloc(log[1]) /\ IsMalloc(log[2])
        /\ \A i \in LogIdx : i > 2 => IsFree(log[i])

\* C7 witness: a queue whose structure was allocated and whose storage was not.
C7_Witness ==
    /\ last.op = "create" /\ last.kind = "queue" /\ last.size > 0
    /\ Len(log) >= 2 /\ log[1].ret # 0 /\ log[2].ret = 0
    /\ last.before # {}

CtorFailed == \E i \in LogIdx : IsConstructor(log[i]) /\ log[i].ret = 0

\* C8: when every allocation succeeds and the static constructor fails, the
\* call fails and every buffer it allocated is freed: the live allocations
\* are those before the call and no object is registered.
C8_CtorFailureRollback ==
    (last.op = "create" /\ CtorFailed) =>
        /\ RolledBack
        /\ \A i \in LogIdx : (IsMalloc(log[i]) /\ log[i].ret # 0) =>
              \E j \in LogIdx : j > i /\ IsFree(log[j]) /\ log[j].arg = log[i].ret

\* C8 witness: a semaphore whose constructor failed, beside a live object.
C8_Witness == last.op = "create" /\ last.kind = "sem" /\ CtorFailed /\ objs # {}

NoDataBuffer == last.kind \in {"sem", "event"} \/ (last.kind = "queue" /\ last.size = 0)

\* C9 as stated: for a kind without data buffer neither the creation nor the
\* deletion issues an allocate or a free call for a second buffer.
C9_NoSecondBufferCall ==
    (last.op # "none" /\ NoDataBuffer) => \A i \in LogIdx : log[i].slot # "data"

\* C9 amended: for a kind without data buffer no allocate call is issued
\* for a second buffer; semaphores and event groups issue no free call for
\* one; the rollback and the deletion of a zero-item-size queue issue
\* heap_caps_free for the storage pointer, which is NULL and frees nothing.
C9_NoSecondBufferAllocated ==
    (last.op # "none" /\ NoDataBuffer) =>
        \A i \in LogIdx : log[i].slot = "data" =>
            /\ last.kind = "queue"
            /\ log[i].call = "heap_caps_free"
            /\ log[i].arg = 0

\* C9 witness: a zero-item-size queue was deleted, with its free of NULL.
C9_Witness ==
    /\ last.op = "delete" /\ last.kind = "queue" /\ last.size = 0
    /\ \E i \in LogIdx : log[i].slot = "data" /\ log[i].arg = 0

\* C10 as stated: every buffer a create call allocates is requested from
\* the capability allocator with the mask the caller passed.
C10_AllFromCapsAllocator ==
    last.op = "create" =>
        \A i \in LogIdx : IsMalloc(log[i]) => (log[i].call = Caps /\ log[i].arg = last.caps)

\* C10 amended: every buffer is requested from the capability allocator
\* with the caller's mask, except the task control block, which is requested
\* from pvPortMalloc, without a mask.
C10_CapsPassedButTCB ==
    last.op = "create" =>
        \A i \in LogIdx : IsMalloc(log[i]) =>
            IF last.kind = "task" /\ log[i].slot = "cb"
            THEN log[i].call = Port
            ELSE log[i].call = Caps /\ log[i].arg = last.caps

\* C10 witness: a task was created: control block and stack allocated.
C10_Witness ==
    /\ last.op = "create" /\ last.kind = "task" /\ last.ok
    /\ Len(log) >= 2 /\ log[1].call = Port /\ log[2].call = Caps /\ log[2].arg = last.caps

IsIntrospection(e) ==
    e.slot = "obj" /\ e.call \in {"xTaskGetStaticBuffers", "xQueueGetStaticBuffers",
                                  "xSemaphoreGetStaticBuffer", "xMessageBufferGetStaticBuffers",
                                  "xStreamBufferGetStaticBuffers", "xEventGroupGetStaticBuffer"}
IsDestructor(e) ==
    e.slot = "obj" /\ e.call \in {"vTaskDelete", "vQueueDelete", "vSemaphoreDelete",
                                  "vMessageBufferDelete", "vStreamBufferDelete",
                                  "vEventGroupDelete"}

C18_OwnKindDestructor ==
    (last.op = "delete" /\ last.ok /\ last.kind \in {"stream", "message"}) =>
        /\ Len(log) >= 2
        /\ log[1].call = (IF last.kind = "message" THEN "xMessageBufferGetStaticBuffers"
                                                  ELSE "xStreamBufferGetStaticBuffers")
        /\ log[2].call = (IF last.kind = "message" THEN "vMessageBufferDelete"
                                                  ELSE "vStreamBufferDelete")
        /\ last.destroyed

\* For a message buffer the introspection call and the destructor are of
\* its kind; for a stream buffer the introspection call is.
OwnKindButStreamDestructor ==
    (last.op = "delete" /\ last.ok /\ last.kind \in {"stream", "message"}) =>
        /\ Len(log) >= 2
        /\ log[1].call = (IF last.kind = "message" THEN "xMessageBufferGetStaticBuffers"
                                                  ELSE "xStreamBufferGetStaticBuffers")
        /\ last.kind = "message" => (log[2].call = "vMessageBufferDelete" /\ last.destroyed)
        /\ last.kind = "stream" => log[2].call = "vSemaphoreDelete"

\* The allocator a live pointer came from: the allocation call of this
\* wrapper call, or the record of the allocation made before it.
FamilyOf(p) ==
    IF \E i \in LogIdx : IsMalloc(log[i]) /\ log[i].ret = p
    THEN (CHOOSE e \in {log[i] : i \in LogIdx} : IsMalloc(e) /\ e.ret = p).call
    ELSE (CHOOSE b \in last.before : b.addr = p).by

FreeOf(by) == IF by = Port THEN "vPortFree" ELSE "heap_caps_free"

\* C20: over any sequence of create and delete calls no buffer is freed
\* twice: every free is of a live allocation (or of NULL), a wrapper call
\* passes a buffer to free at most once, and it frees it with the free call
\* of the allocator it came from.
C20_NoDoubleFree ==
    /\ ~heapFault
    /\ \A i \in LogIdx : (IsFree(log[i]) /\ log[i].arg # 0) =>
          /\ \A j \in LogIdx : (IsFree(log[j]) /\ log[j].arg = log[i].arg) => j = i
          /\ log[i].call = FreeOf(FamilyOf(log[i].arg))

\* No double free for every kind but the stream buffer.
NoDoubleFreeButStream == (last.kind # "stream") => C20_NoDoubleFree

====
